---- MODULE Spec2Model ----
(***************************************************************************)
(* A model of decorator_type_propagation.py: the two decorators            *)
(* with_logging and benchmark, the functions is_prime and                  *)
(* count_prime_numbers, and a caller that invokes a decorated callable.    *)
(*                                                                         *)
(* The interpreter is modelled as a call stack of frames.  Every statement *)
(* of the source is one action on the top frame; a call pushes a frame, a  *)
(* return pops it and resumes the caller, and a raised exception unwinds   *)
(* the stack one frame at a time (no frame of the source has a handler).   *)
(***************************************************************************)
EXTENDS Integers, Sequences, FiniteSets, TLC

\* ------------------------------------------------------------------ bounds
\* count_prime_numbers is called with upper_bound in -NegBound .. MaxBound
MaxBound == 10
NegBound == 2
\* is_prime is called directly with number in -NegBound .. MaxNumber, or 2^1024
MaxNumber == 26
\* perf_counter() reads a clock that advances up to MaxClock ticks
MaxClock == 2
\* the observed callable f is called with up to MaxArgs positional arguments,
\* each in 0 .. MaxArg
MaxArgs == 2
MaxArg == 1

\* --------------------------------------------------------- Python integers
\* The argument of is_prime is a Python int of arbitrary size.  The record
\* [big, n] stands for the integer n + (IF big THEN 2^1024 ELSE 0); the only
\* integer with big = TRUE the model uses is 2^1024 itself, the least power
\* of two that float() cannot represent.
Small(n) == [big |-> FALSE, n |-> n]
TwoPow1024 == [big |-> TRUE, n |-> 0]

\* number < 2 (line 61)
LessThanTwo(x) == ~x.big /\ x.n < 2

\* sqrt(number) converts its argument to a C double first and raises
\* OverflowError ("int too large to convert to float") when that fails.
SqrtOverflows(x) == x.big

\* int(sqrt(number)) for an integer the conversion accepts: the double square
\* root is exact enough below 2^52 that truncating it gives the integer
\* square root.
IntSqrt(x) == CHOOSE r \in 0..x.n : r * r <= x.n /\ (r + 1) * (r + 1) > x.n

\* number % element == 0 (line 64), reached only after sqrt succeeded
Divides(element, x) == x.n % element = 0

\* --------------------------------------------------------- function objects
\* A function object: the code it runs, its __name__, and the cell of its
\* closure (the decorated func), empty for a plain function.
\* a wrapper left without @functools.wraps keeps its own __name__
NoWraps(func, wrapper) == wrapper

\* functools.wraps(func)(wrapper): copies func's __name__ onto wrapper
wraps(func, wrapper) == [wrapper EXCEPT !.name = func.name]

\* a decorator that returns func instead of wrapper
with_logging_returns_func(func) == func

\* def with_logging(func): @functools.wraps(func) def wrapper ...; return wrapper
with_logging(func) ==
    wraps(func, [code |-> "with_logging.wrapper", name |-> "wrapper",
                 closure |-> <<func>>])

\* def benchmark(func): @functools.wraps(func) def wrapper ...; return wrapper
benchmark(func) ==
    wraps(func, [code |-> "benchmark.wrapper", name |-> "wrapper",
                 closure |-> <<func>>])

\* def is_prime(number)
is_prime == [code |-> "is_prime", name |-> "is_prime", closure |-> <<>>]

\* the function the def statement of line 71 creates, before decoration
count_prime_numbers_def ==
    [code |-> "count_prime_numbers", name |-> "count_prime_numbers",
     closure |-> <<>>]

\* the two decorators written in the other order
count_prime_numbers_swapped == benchmark(with_logging(count_prime_numbers_def))

\* @with_logging @benchmark def count_prime_numbers: decorators apply bottom up
count_prime_numbers == with_logging(benchmark(count_prime_numbers_def))

\* "any callable": an observed function f that records how it is called and
\* either returns a value or raises an exception
f == [code |-> "f", name |-> "f", closure |-> <<>>]

\* the values f may return and the exceptions it may raise
RetVals == {41, 42}
Exceptions == {"ValueError", "KeyError"}

\* --------------------------------------------------------------- the calls
\* positional arguments of a call of f, in order
RECURSIVE SeqsUpTo(_, _)
SeqsUpTo(S, k) ==
    IF k = 0 THEN {<<>>}
    ELSE LET shorter == SeqsUpTo(S, k - 1)
         IN  shorter \cup {Append(s, x) : s \in shorter, x \in S}

\* keyword arguments of a call, in order: a sequence of key/value pairs
FArgs == SeqsUpTo(0..MaxArg, MaxArgs)
FKwargs == {<<>>} \cup {<<[key |-> "k", val |-> v]>> : v \in 0..MaxArg}

Call(fn, args, kwargs) == [fn |-> fn, args |-> args, kwargs |-> kwargs]

\* the calls the caller may make
Calls ==
    {Call(count_prime_numbers, <<b>>, <<>>) : b \in (0 - NegBound)..MaxBound}
    \cup {Call(count_prime_numbers, <<>>, <<[key |-> "upper_bound", val |-> b]>>) :
             b \in (0 - NegBound)..MaxBound}
    \cup {Call(g, a, k) :
             g \in {with_logging(f), benchmark(f), with_logging(benchmark(f))},
             a \in FArgs, k \in FKwargs}
    \cup {Call(is_prime, <<Small(n)>>, <<>>) : n \in (0 - NegBound)..MaxNumber}
    \cup {Call(is_prime, <<TwoPow1024>>, <<>>)}

\* ------------------------------------------------------------------- state
VARIABLES
    call,      \* the call the caller makes: [fn, args, kwargs]
    phase,     \* the caller: "idle" before the call, "running", "done"
    stack,     \* the call stack, innermost frame last
    raising,   \* the exception in flight, "none" when there is none
    outcome,   \* how the call ended: [kind, value, exc]
    log,       \* the records passed to logging.info, in order
    clock,     \* what perf_counter() reads
    seen       \* what f observed: its calls, the values it returned, what it raised

vars == <<call, phase, stack, raising, outcome, log, clock, seen>>

\* the frame a call of fn creates: parameters bound, locals not yet assigned.
\* In a frame of count_prime_numbers, number = -1 is the range iterator before
\* its first element.
Frame(fn, args, kwargs) ==
    CASE fn.code = "with_logging.wrapper" ->
           [fn |-> fn, pc |-> "36", args |-> args, kwargs |-> kwargs, value |-> 0]
      [] fn.code = "benchmark.wrapper" ->
           [fn |-> fn, pc |-> "50", args |-> args, kwargs |-> kwargs, value |-> 0,
            start_time |-> 0, end_time |-> 0, run_time |-> 0]
      [] fn.code = "count_prime_numbers" ->
           [fn |-> fn, pc |-> "72",
            upper_bound |-> IF Len(args) > 0 THEN args[1] ELSE kwargs[1].val,
            count |-> 0, number |-> 0 - 1]
      [] fn.code = "is_prime" ->
           [fn |-> fn, pc |-> "61", number |-> args[1], element |-> 0, stop |-> 0]
      [] fn.code = "f" ->
           [fn |-> fn, pc |-> "enter", args |-> args, kwargs |-> kwargs]

Top == stack[Len(stack)]

\* the top frame is running code `code` at statement `pc`, no exception in flight
At(code, pc) ==
    /\ phase = "running"
    /\ raising = "none"
    /\ Len(stack) > 0
    /\ Top.fn.code = code
    /\ Top.pc = pc

\* the top frame after one of its statements
SetTop(frame) == stack' = [stack EXCEPT ![Len(stack)] = frame]

\* a call from the top frame: the caller waits at `pc`, the callee's frame is pushed
Push(pc, fn, args, kwargs) ==
    stack' = Append([stack EXCEPT ![Len(stack)].pc = pc], Frame(fn, args, kwargs))

\* the caller's frame once its callee returned v
Resume(caller, v) ==
    CASE caller.fn.code = "with_logging.wrapper" ->
           [caller EXCEPT !.value = v, !.pc = "38"]
      [] caller.fn.code = "benchmark.wrapper" ->
           [caller EXCEPT !.value = v, !.pc = "52"]
      [] caller.fn.code = "count_prime_numbers" ->
           [caller EXCEPT !.pc = IF v THEN "75" ELSE "73"]

\* return v from the top frame
Return(v) ==
    LET rest == SubSeq(stack, 1, Len(stack) - 1)
    IN  IF Len(rest) = 0
        THEN /\ stack' = <<>>
             /\ outcome' = [kind |-> "return", value |-> v, exc |-> "none"]
             /\ phase' = "done"
        ELSE /\ stack' = [rest EXCEPT ![Len(rest)] = Resume(@, v)]
             /\ UNCHANGED <<outcome, phase>>

Init ==
    /\ call \in Calls
    /\ phase = "idle"
    /\ stack = <<>>
    /\ raising = "none"
    /\ outcome = [kind |-> "none", value |-> 0, exc |-> "none"]
    /\ log = <<>>
    /\ clock = 0
    /\ seen = [calls |-> <<>>, returned |-> <<>>, raised |-> <<>>]

\* the caller calls the callable (main, line 82, with any of the Calls)
Invoke ==
    /\ phase = "idle"
    /\ phase' = "running"
    /\ stack' = <<Frame(call.fn, call.args, call.kwargs)>>
    /\ UNCHANGED <<call, raising, outcome, log, clock, seen>>

\* ------------------------------------------------- with_logging's wrapper
\* line 36: logging.info(f"Calling {func.__name__}")
WL_Calling ==
    /\ At("with_logging.wrapper", "36")
    /\ log' = Append(log, <<"Calling", Top.fn.closure[1].name>>)
    /\ SetTop([Top EXCEPT !.pc = "37"])
    /\ UNCHANGED <<call, phase, raising, outcome, clock, seen>>

\* the call written func(*args), the keyword arguments dropped
WL_Call_no_kwargs ==
    /\ At("with_logging.wrapper", "37")
    /\ Push("37", Top.fn.closure[1], Top.args, <<>>)
    /\ UNCHANGED <<call, phase, raising, outcome, log, clock, seen>>

\* line 37: value = func(*args, **kwargs), the call
WL_Call ==
    /\ At("with_logging.wrapper", "37")
    /\ Push("37", Top.fn.closure[1], Top.args, Top.kwargs)
    /\ UNCHANGED <<call, phase, raising, outcome, log, clock, seen>>

\* line 38 left out: nothing is logged after the call
WL_Finished_silent ==
    /\ At("with_logging.wrapper", "38")
    /\ SetTop([Top EXCEPT !.pc = "39"])
    /\ UNCHANGED <<call, phase, raising, outcome, log, clock, seen>>

\* line 38: logging.info(f"Finished {func.__name__}")
WL_Finished ==
    /\ At("with_logging.wrapper", "38")
    /\ log' = Append(log, <<"Finished", Top.fn.closure[1].name>>)
    /\ SetTop([Top EXCEPT !.pc = "39"])
    /\ UNCHANGED <<call, phase, raising, outcome, clock, seen>>

\* line 39: return value
WL_Return ==
    /\ At("with_logging.wrapper", "39")
    /\ Return(Top.value)
    /\ UNCHANGED <<call, raising, log, clock, seen>>

\* ---------------------------------------------------- benchmark's wrapper
\* the timing record logged where the measurement starts
BM_Start_logs ==
    /\ At("benchmark.wrapper", "50")
    /\ log' = Append(log, <<"took", Top.fn.closure[1].name, 0>>)
    /\ SetTop([Top EXCEPT !.start_time = clock, !.pc = "51"])
    /\ UNCHANGED <<call, phase, raising, outcome, clock, seen>>

\* line 50: start_time = perf_counter()
BM_Start ==
    /\ At("benchmark.wrapper", "50")
    /\ SetTop([Top EXCEPT !.start_time = clock, !.pc = "51"])
    /\ UNCHANGED <<call, phase, raising, outcome, log, clock, seen>>

\* line 51: value = func(*args, **kwargs), the call
BM_Call ==
    /\ At("benchmark.wrapper", "51")
    /\ Push("51", Top.fn.closure[1], Top.args, Top.kwargs)
    /\ UNCHANGED <<call, phase, raising, outcome, log, clock, seen>>

\* line 52: end_time = perf_counter()
BM_End ==
    /\ At("benchmark.wrapper", "52")
    /\ SetTop([Top EXCEPT !.end_time = clock, !.pc = "53"])
    /\ UNCHANGED <<call, phase, raising, outcome, log, clock, seen>>

\* line 53: run_time = end_time - start_time
BM_RunTime ==
    /\ At("benchmark.wrapper", "53")
    /\ SetTop([Top EXCEPT !.run_time = Top.end_time - Top.start_time, !.pc = "54"])
    /\ UNCHANGED <<call, phase, raising, outcome, log, clock, seen>>

\* line 54: logging.info(f"Execution of {func.__name__} took {run_time:.2f} seconds.")
\* The record carries run_time in clock ticks; the text of the number is not modelled.
BM_Log ==
    /\ At("benchmark.wrapper", "54")
    /\ log' = Append(log, <<"took", Top.fn.closure[1].name, Top.run_time>>)
    /\ SetTop([Top EXCEPT !.pc = "55"])
    /\ UNCHANGED <<call, phase, raising, outcome, clock, seen>>

\* line 55: return value
BM_Return ==
    /\ At("benchmark.wrapper", "55")
    /\ Return(Top.value)
    /\ UNCHANGED <<call, raising, log, clock, seen>>

\* ------------------------------------------------------ count_prime_numbers
\* line 72: count = 0
CP_Init ==
    /\ At("count_prime_numbers", "72")
    /\ SetTop([Top EXCEPT !.count = 0, !.pc = "73"])
    /\ UNCHANGED <<call, phase, raising, outcome, log, clock, seen>>

\* range(upper_bound + 1): the bound itself is counted too
CP_For_inclusive ==
    /\ At("count_prime_numbers", "73")
    /\ IF Top.number + 1 < Top.upper_bound + 1
       THEN SetTop([Top EXCEPT !.number = Top.number + 1, !.pc = "74"])
       ELSE SetTop([Top EXCEPT !.pc = "76"])
    /\ UNCHANGED <<call, phase, raising, outcome, log, clock, seen>>

\* a loop that tests its bound and never advances number
CP_For_stuck ==
    /\ At("count_prime_numbers", "73")
    /\ IF Top.number + 1 < Top.upper_bound
       THEN SetTop([Top EXCEPT !.pc = "74"])
       ELSE SetTop([Top EXCEPT !.pc = "76"])
    /\ UNCHANGED <<call, phase, raising, outcome, log, clock, seen>>

\* line 73: for number in range(upper_bound): the next number, or the loop's end
CP_For ==
    /\ At("count_prime_numbers", "73")
    /\ IF Top.number + 1 < Top.upper_bound
       THEN SetTop([Top EXCEPT !.number = Top.number + 1, !.pc = "74"])
       ELSE SetTop([Top EXCEPT !.pc = "76"])
    /\ UNCHANGED <<call, phase, raising, outcome, log, clock, seen>>

\* line 74: if is_prime(number): the call; its result picks line 75 or line 73
CP_If ==
    /\ At("count_prime_numbers", "74")
    /\ Push("74", is_prime, <<Small(Top.number)>>, <<>>)
    /\ UNCHANGED <<call, phase, raising, outcome, log, clock, seen>>

\* line 75: count += 1
CP_Incr ==
    /\ At("count_prime_numbers", "75")
    /\ SetTop([Top EXCEPT !.count = Top.count + 1, !.pc = "73"])
    /\ UNCHANGED <<call, phase, raising, outcome, log, clock, seen>>

\* line 76: return count
CP_Return ==
    /\ At("count_prime_numbers", "76")
    /\ Return(Top.count)
    /\ UNCHANGED <<call, raising, log, clock, seen>>

\* ----------------------------------------------------------------- is_prime
\* lines 61-62: if number < 2: return False
IP_Small ==
    /\ At("is_prime", "61")
    /\ IF LessThanTwo(Top.number)
       THEN Return(FALSE)
       ELSE SetTop([Top EXCEPT !.pc = "63"]) /\ UNCHANGED <<outcome, phase>>
    /\ UNCHANGED <<call, raising, log, clock, seen>>

\* line 63: range(2, int(sqrt(number)) + 1) is built; sqrt may raise
IP_Range ==
    /\ At("is_prime", "63")
    /\ IF SqrtOverflows(Top.number)
       THEN raising' = "OverflowError" /\ UNCHANGED stack
       ELSE /\ SetTop([Top EXCEPT !.element = 1,
                                  !.stop = IntSqrt(Top.number) + 1,
                                  !.pc = "for"])
            /\ UNCHANGED raising
    /\ UNCHANGED <<call, phase, outcome, log, clock, seen>>

\* line 63: for element in range(...): the next element, or the loop's end
IP_For ==
    /\ At("is_prime", "for")
    /\ IF Top.element + 1 < Top.stop
       THEN SetTop([Top EXCEPT !.element = Top.element + 1, !.pc = "64"])
       ELSE SetTop([Top EXCEPT !.pc = "66"])
    /\ UNCHANGED <<call, phase, raising, outcome, log, clock, seen>>

\* lines 64-65: if number % element == 0: return False
IP_Divisor ==
    /\ At("is_prime", "64")
    /\ IF Divides(Top.element, Top.number)
       THEN Return(FALSE)
       ELSE SetTop([Top EXCEPT !.pc = "for"]) /\ UNCHANGED <<outcome, phase>>
    /\ UNCHANGED <<call, raising, log, clock, seen>>

\* line 66: return True
IP_True ==
    /\ At("is_prime", "66")
    /\ Return(TRUE)
    /\ UNCHANGED <<call, raising, log, clock, seen>>

\* ------------------------------------------------- the observed callable f
\* f is entered: it sees its positional and keyword arguments
F_Enter ==
    /\ At("f", "enter")
    /\ seen' = [seen EXCEPT !.calls = Append(@, [args |-> Top.args, kwargs |-> Top.kwargs])]
    /\ SetTop([Top EXCEPT !.pc = "body"])
    /\ UNCHANGED <<call, phase, raising, outcome, log, clock>>

\* f returns some value
F_Return ==
    /\ At("f", "body")
    /\ \E v \in RetVals :
          /\ seen' = [seen EXCEPT !.returned = Append(@, v)]
          /\ Return(v)
    /\ UNCHANGED <<call, raising, log, clock>>

\* f raises some exception
F_Raise ==
    /\ At("f", "body")
    /\ \E e \in Exceptions :
          /\ seen' = [seen EXCEPT !.raised = Append(@, e)]
          /\ raising' = e
    /\ UNCHANGED <<call, phase, stack, outcome, log, clock>>

\* ------------------------------------------------------------- the runtime
\* wrappers written with try/finally: a frame of with_logging's wrapper logs
\* "Finished" on its way out
Propagate_finally ==
    /\ phase = "running"
    /\ raising # "none"
    /\ Len(stack) > 0
    /\ stack' = SubSeq(stack, 1, Len(stack) - 1)
    /\ log' = IF Top.fn.code = "with_logging.wrapper"
              THEN Append(log, <<"Finished", Top.fn.closure[1].name>>)
              ELSE log
    /\ IF Len(stack) = 1
       THEN /\ outcome' = [kind |-> "raise", value |-> 0, exc |-> raising]
            /\ phase' = "done"
            /\ raising' = "none"
       ELSE UNCHANGED <<outcome, phase, raising>>
    /\ UNCHANGED <<call, clock, seen>>

\* An exception in flight leaves the top frame: no function of the source has
\* a try statement, so no frame handles it and no frame runs code on the way
\* out.  Leaving the outermost frame hands the exception to the caller.
Propagate ==
    /\ phase = "running"
    /\ raising # "none"
    /\ Len(stack) > 0
    /\ stack' = SubSeq(stack, 1, Len(stack) - 1)
    /\ IF Len(stack) = 1
       THEN /\ outcome' = [kind |-> "raise", value |-> 0, exc |-> raising]
            /\ phase' = "done"
            /\ raising' = "none"
       ELSE UNCHANGED <<outcome, phase, raising>>
    /\ UNCHANGED <<call, log, clock, seen>>

\* time passes while the call runs
Tick ==
    /\ phase = "running"
    /\ clock < MaxClock
    /\ clock' = clock + 1
    /\ UNCHANGED <<call, phase, stack, raising, outcome, log, seen>>

\* one statement of the running call
Step ==
    \/ WL_Calling \/ WL_Call \/ WL_Finished \/ WL_Return
    \/ BM_Start \/ BM_Call \/ BM_End \/ BM_RunTime \/ BM_Log \/ BM_Return
    \/ CP_Init \/ CP_For \/ CP_If \/ CP_Incr \/ CP_Return
    \/ IP_Small \/ IP_Range \/ IP_For \/ IP_Divisor \/ IP_True
    \/ F_Enter \/ F_Return \/ F_Raise
    \/ Propagate

Next == Invoke \/ Step \/ Tick

Spec == Init /\ [][Next]_vars

\* The interpreter is single-threaded and never waits: a statement that can run, runs.
FairSpec == Spec /\ WF_vars(Invoke) /\ WF_vars(Step)

\* ================================================================ the claims
Done == phase = "done"
Returned == Done /\ outcome.kind = "return"
Raised == Done /\ outcome.kind = "raise"

\* the kinds of the log records, in order
Kinds == [i \in 1..Len(log) |-> log[i][1]]

\* the function at the bottom of a chain of wrappers
RECURSIVE Innermost(_)
Innermost(fn) == IF Len(fn.closure) = 0 THEN fn ELSE Innermost(fn.closure[1])

Wrapped(fn) == Len(fn.closure) > 0
CallsComposed == Wrapped(call.fn) /\ call.fn = count_prime_numbers
CallsIsPrime == call.fn.code = "is_prime"
CallsWrapped(g) == Wrapped(call.fn) /\ call.fn = g
UpperBound == IF Len(call.args) > 0 THEN call.args[1] ELSE call.kwargs[1].val

OnStack(code) == \E i \in 1..Len(stack) : stack[i].fn.code = code

\* n is prime: greater than 1, with no positive divisor other than 1 and itself
Prime(n) == n > 1 /\ \A d \in 1..n : n % d = 0 => d \in {1, n}
\* 2^1024 is even, so it is not prime
PrimeInt(x) == ~x.big /\ Prime(x.n)

\* C1: a normally-returning call of the composed count_prime_numbers logs exactly
\* "Calling", then "took", then "Finished"; the count is computed after "Calling"
\* and before "took".
C1_LogOrder ==
    CallsComposed =>
        /\ OnStack("count_prime_numbers") => Kinds = <<"Calling">>
        /\ Returned => Kinds = <<"Calling", "took", "Finished">>

C1_Witness ==
    /\ CallsComposed /\ Returned /\ UpperBound = 10
    /\ Kinds = <<"Calling", "took", "Finished">>

\* C2: when the wrapped callable raises, no "Finished" and no "took" record is
\* logged for the call, and the caller of the outermost wrapper gets that same
\* exception.
C2_ExceptionPassesThrough ==
    (Wrapped(call.fn) /\ Len(seen.raised) > 0) =>
        /\ \A i \in 1..Len(log) : log[i][1] \notin {"Finished", "took"}
        /\ phase = "running" => raising = seen.raised[1]
        /\ Done => outcome.kind = "raise" /\ outcome.exc = seen.raised[1]

C2_Witness ==
    /\ CallsWrapped(with_logging(benchmark(f)))
    /\ Raised /\ outcome.exc = "KeyError"
    /\ log = << <<"Calling", "f">> >>

\* C3: one call of with_logging(f), and of benchmark(f), calls f exactly once with
\* the same positional and keyword arguments in the same order, and returns
\* exactly the value f returned.
C3_PassThrough ==
    (CallsWrapped(with_logging(f)) \/ CallsWrapped(benchmark(f))) =>
        /\ Len(seen.calls) <= 1
        /\ Len(seen.calls) = 1 =>
              seen.calls[1] = [args |-> call.args, kwargs |-> call.kwargs]
        /\ Done => Len(seen.calls) = 1
        /\ Returned => seen.returned = <<outcome.value>>

C3_Witness ==
    /\ CallsWrapped(with_logging(f)) /\ Returned
    /\ call.args = <<0, 1>> /\ Len(call.kwargs) = 1
    /\ outcome.value = 42

\* C4: for every integer n, is_prime(n) returns whether n is prime.
C4_IsPrimeEveryInteger ==
    (CallsIsPrime /\ Done) =>
        /\ outcome.kind = "return"
        /\ outcome.value = PrimeInt(call.args[1])

\* the same for the integers below 2^1024 that the model calls is_prime with
IsPrimeBelowOverflow ==
    (CallsIsPrime /\ Done /\ ~call.args[1].big) =>
        /\ outcome.kind = "return"
        /\ outcome.value = Prime(call.args[1].n)

\* C5: count_prime_numbers(bound) returns the number of primes in [0, bound):
\* 0 for every bound <= 1, and 4 for bound = 10.
C5_CountsPrimes ==
    (CallsComposed /\ Done) =>
        /\ outcome.kind = "return"
        /\ outcome.value = Cardinality({p \in 0..(UpperBound - 1) : Prime(p)})
        /\ UpperBound <= 1 => outcome.value = 0
        /\ UpperBound = 10 => outcome.value = 4

C5_Witness == CallsComposed /\ Returned /\ UpperBound = 10 /\ outcome.value = 4

\* C6: a normally-returning call of with_logging(f) logs exactly two records, both
\* naming f: "Calling" in the statement before the call of f, and "Finished" in
\* the statement after f returned.
C6_TwoRecordsAroundTheCall ==
    CallsWrapped(with_logging(f)) =>
        /\ (phase = "running" /\ raising = "none") =>
              /\ stack[1].pc = "36" => log = <<>>
              /\ stack[1].pc = "37" =>
                    /\ log = << <<"Calling", "f">> >>
                    /\ Len(stack) = 1 => seen.calls = <<>>
              /\ stack[1].pc = "38" =>
                    /\ log = << <<"Calling", "f">> >>
                    /\ Len(seen.returned) = 1
              /\ stack[1].pc = "39" =>
                    log = << <<"Calling", "f">>, <<"Finished", "f">> >>
        /\ Returned => log = << <<"Calling", "f">>, <<"Finished", "f">> >>

C6_Witness ==
    /\ CallsWrapped(with_logging(f)) /\ Returned
    /\ log = << <<"Calling", "f">>, <<"Finished", "f">> >>

\* C7: a normally-returning call of benchmark(f) logs exactly one record, after
\* f returned and before the wrapper returns.
C7_OneRecordAfterTheCall ==
    CallsWrapped(benchmark(f)) =>
        /\ Len(log) <= 1
        /\ Len(log) = 1 =>
              /\ log[1][1] = "took"
              /\ Len(seen.returned) = 1
              /\ phase = "running" => Len(stack) = 1 /\ stack[1].pc = "55"
        /\ Returned => Len(log) = 1

C7_Witness ==
    /\ CallsWrapped(benchmark(f)) /\ phase = "running"
    /\ Len(log) = 1 /\ stack[1].pc = "55"

\* C8: both wrappers carry the name of the function they wrap, so every log
\* record of a call names the innermost function; for the composed
\* count_prime_numbers that name is "count_prime_numbers".
C8_NamePreserved ==
    /\ \A i \in 1..Len(stack) : stack[i].fn.name = Innermost(stack[i].fn).name
    /\ \A i \in 1..Len(log) : log[i][2] = Innermost(call.fn).name
    /\ CallsComposed =>
          /\ call.fn.name = "count_prime_numbers"
          /\ call.fn.closure[1].name = "count_prime_numbers"
          /\ \A i \in 1..Len(log) : log[i][2] = "count_prime_numbers"

C8_Witness == CallsComposed /\ Returned /\ Len(log) = 3

\* C9 as stated: calling the composed count_prime_numbers enters the timing
\* wrapper first, which calls the logging wrapper, which calls the counting
\* routine.
C9_TimingWrapperFirst ==
    CallsComposed =>
        /\ Len(stack) >= 1 => stack[1].fn.code = "benchmark.wrapper"
        /\ Len(stack) >= 2 => stack[2].fn.code = "with_logging.wrapper"
        /\ Len(stack) >= 3 => stack[3].fn.code = "count_prime_numbers"

\* C9 amended: calling the composed count_prime_numbers enters the logging
\* wrapper first, which calls the timing wrapper, which calls the counting
\* routine.
C9_LoggingWrapperFirst ==
    CallsComposed =>
        /\ Len(stack) >= 1 => stack[1].fn.code = "with_logging.wrapper"
        /\ Len(stack) >= 2 => stack[2].fn.code = "benchmark.wrapper"
        /\ Len(stack) >= 3 => stack[3].fn.code = "count_prime_numbers"

C9_Witness ==
    /\ CallsComposed /\ Len(stack) = 4
    /\ stack[3].fn.code = "count_prime_numbers" /\ stack[4].fn.code = "is_prime"

\* the loop of count_prime_numbers stays below upper_bound, the loop of is_prime
\* below int(sqrt(number)) + 1
LoopsBounded ==
    \A i \in 1..Len(stack) :
        /\ stack[i].fn.code = "count_prime_numbers" =>
              (stack[i].number < stack[i].upper_bound \/ stack[i].number = 0 - 1)
        /\ (stack[i].fn.code = "is_prime" /\ stack[i].pc \in {"for", "64", "66"}) =>
              /\ stack[i].element < stack[i].stop
              /\ stack[i].stop = IntSqrt(stack[i].number) + 1

\* C10: every call ends, by returning or by raising; a call of the composed
\* count_prime_numbers with an integer bound returns normally, and its loops are
\* bounded.
C10_Terminates ==
    /\ (phase = "idle") ~> Done
    /\ (CallsComposed /\ phase = "idle") ~> Returned
    /\ []LoopsBounded

C10_Witness == CallsComposed /\ Returned /\ UpperBound = MaxBound
====
